---- MODULE Spec2Model ----
(***************************************************************************)
(* Batch orchestration of the CV parser: processFiles, extractTextFromPDF, *)
(* classifyError and initializePDFWorker of src/components/CVProcessor.tsx *)
(* (final variant, lines 422-1339).                                        *)
(*                                                                         *)
(* One run of processFiles is modelled as an event loop: the main loop of  *)
(* processFiles and one extraction pipeline per file are threads that run  *)
(* from one await to the next. Timers (setTimeout) and pending external    *)
(* operations carry the milliseconds left until they fire.                 *)
(*                                                                         *)
(* The specifications share the actions. Under SpecTimed (one-file runs)   *)
(* durations are measured: an event happens when its milliseconds are used *)
(* up and Tick advances time to the next event. Under Spec (runs over      *)
(* several files) durations are left open: any armed timer and any pending *)
(* operation may be the next event, which covers every timing.             *)
(* SpecPages is Spec over one file with longer documents, up to one page   *)
(* more than the page cap. SpecExtract applies extractDataFromText and the *)
(* validation after it to texts directly.                                  *)
(***************************************************************************)
EXTENDS Integers, Sequences, FiniteSets, TLC

\* ---------------------------------------------------------------- bounds
\* Runs over several files: files of a run, pages of a document, failures
\* the environment causes in a run. One-file runs: pages of a document.
NumFiles == 2
MaxNumPages == 1
MaxFaults == 1
MaxTimedPages == 3

\* ------------------------------------------------------ program constants
MAX_RETRIES == 2
TIMEOUT_MS == 60000
PAGE_CAP == 30
MIN_TEXT == 50
PAUSE_MS == 300
WORKER_INIT_MS == 3000
BACKOFF_MS == 1000
MB == 1024 * 1024
\* Variant of the ceiling of processFiles: twice as high.
DoubleFileBytes == 100 * MB
MaxFileBytes == 50 * MB
MaxExtractBytes == 100 * MB

Min(a, b) == IF a < b THEN a ELSE b
Max(a, b) == IF a > b THEN a ELSE b
SetMin(S) == CHOOSE x \in S : \A y \in S : x <= y
SetMax(S) == CHOOSE x \in S : \A y \in S : x >= y

\* ------------------------------------------------------------ environment
\* Declared sizes of the input files, in bytes.
FileSizes == {0, 1 * MB, 20 * MB, 60 * MB}
FileTypes == {"application/pdf", "text/plain"}
\* file.type.includes('pdf')
TypeIncludesPdf(t) == t = "application/pdf"
FileName(i) == <<"cv", i>>
FilePool ==
    {f \in [size : FileSizes, type : FileTypes] :
        f.type = "text/plain" => f.size = 1 * MB}
\* Files of the runs over several files.
BatchPool == {f \in FilePool : f.size # 20 * MB}

\* A timer or a pending external operation: armed or not, and the
\* milliseconds left until it fires.
Off == [on |-> FALSE, ms |-> 0]
After(ms) == [on |-> TRUE, ms |-> ms]

\* Durations of the external operations; Off is an operation that never
\* returns.
InitWaits == {After(100), After(WORKER_INIT_MS)}
DecodeWaits == {After(1000), After(40000), Off}
PageWaits == {After(1000), After(35000)}

\* Messages of the errors pdf.js can raise from getDocument, and for each
\* message the substrings classifyError looks for that it contains
\* (lower-cased).
DecodeErrors ==
    {"Invalid PDF structure.", "Worker was destroyed", "Loading aborted",
     "Out of memory", "Request timeout", "Corrupt stream: worker terminated"}
Keywords(msg) ==
    CASE msg = "Invalid PDF structure." -> {"invalid"}
      [] msg = "Worker was destroyed" -> {"worker"}
      [] msg = "Out of memory" -> {"memory"}
      [] msg = "Request timeout" -> {"timeout", "time"}
      [] msg = "Corrupt stream: worker terminated" -> {"corrupt", "worker"}
      [] msg = "No readable text found. File may be image-based or corrupted." -> {"corrupt"}
      [] OTHER -> {}

\* The ten categories of extractDataFromText (one toggle each), the number
\* of pattern rules each tries in order, and how its loop treats a match:
\* "first" takes the first match and stops; "usable" takes a match only
\* when its value passes the category's check and tries the next rule
\* otherwise; "assign" stores every match and stops when the value passes.
Categories ==
    {"name", "email", "phone", "location", "role", "skills", "education",
     "experience", "about", "languages"}
RuleCount ==
    [name |-> 3, email |-> 1, phone |-> 2, location |-> 3, role |-> 7,
     skills |-> 2, education |-> 3, experience |-> 2, about |-> 2,
     languages |-> 2]
Kind ==
    [name |-> "first", email |-> "first", phone |-> "first",
     location |-> "first", role |-> "first", skills |-> "usable",
     education |-> "assign", experience |-> "usable", about |-> "usable",
     languages |-> "usable"]
\* The output fields a category fills.
FieldsOfCategory(c) ==
    CASE c = "name" -> {"firstName", "lastName"}
      [] c = "role" -> {"currentRole"}
      [] OTHER -> {c}

\* What text.match(rule) gives for a rule of a category: no match, a match
\* whose value fails the check of the category, or a match whose value
\* passes it ("first" categories have no check).
OutcomesOf(c) == IF Kind[c] = "first" THEN {"none", "ok"} ELSE {"none", "short", "ok"}
\* The outcome vectors a normalized text (one line, single spaces) can
\* give. The second rule of a "usable" category looks for a keyword that
\* the first rule looks for too, and both capture up to the end of the
\* text: it matches only where the first does and its value is no better.
\* The third name rule needs a line break after the name. A match of the
\* second education rule holds a degree word and an institution word, more
\* than 5 characters.
Realizable(c, v) ==
    /\ Kind[c] = "usable" =>
           /\ v[2] # "none" => v[1] # "none"
           /\ v[1] = "short" => v[2] # "ok"
    /\ c = "name" => v[3] = "none"
    /\ c = "education" => v[2] # "short"
Vectors(c) == {v \in [1..RuleCount[c] -> OutcomesOf(c)] : Realizable(c, v)}
NoMatches == [c \in Categories |-> [r \in 1..RuleCount[c] |-> "none"]]
\* A text with name, e-mail address, phone number and skills section.
CvMatches ==
    [c \in Categories |->
        [r \in 1..RuleCount[c] |->
            IF r = 1 /\ c \in {"name", "email", "phone", "skills"}
            THEN "ok" ELSE "none"]]

\* A text with an e-mail address and nothing else.
MailMatches == [NoMatches EXCEPT !.email = <<"ok">>]

\* Text of one page as getTextContent returns it after the join: its length
\* and the outcome of every rule on it.
PageTexts ==
    {[len |-> 3, m |-> NoMatches], [len |-> 20, m |-> MailMatches],
     [len |-> 60, m |-> NoMatches], [len |-> 60, m |-> CvMatches]}

\* Texts handed to extractDataFromText on their own: one category with any
\* outcome vector and nothing else in the text, and a text in which the
\* first rule of every category matches.
TextWith(c, v) == [len |-> 60, m |-> [NoMatches EXCEPT ![c] = v]]
RichText ==
    [len |-> 60,
     m |-> [c \in Categories |->
               [r \in 1..RuleCount[c] |-> IF r = 1 THEN "ok" ELSE "none"]]]
Texts ==
    UNION {{TextWith(c, v) : v \in Vectors(c)} : c \in Categories} \cup {RichText}

\* extractionSettings: one toggle per category (extractName, extractEmail,
\* extractPhone, ...), all on when the component mounts.
AllOn == [c \in Categories |-> TRUE]
AllOff == [c \in Categories |-> FALSE]
\* The toggle values the extractions are run with: all on, all off, one
\* off, one on.
SettingsPool ==
    {AllOn, AllOff} \cup {[AllOn EXCEPT ![c] = FALSE] : c \in Categories}
        \cup {[AllOff EXCEPT ![c] = TRUE] : c \in Categories}

\* --------------------------------------------------------- classifyError
Includes(msg, kw) == kw \in Keywords(msg)

classifyError(msg, filename) ==
    IF Includes(msg, "timeout") \/ Includes(msg, "time")
    THEN [type |-> "timeout", recoverable |-> TRUE,
          userMessage |-> <<"took too long to process", filename>>]
    ELSE IF Includes(msg, "memory") \/ Includes(msg, "heap")
    THEN [type |-> "memory", recoverable |-> TRUE,
          userMessage |-> <<"is too large for processing", filename>>]
    ELSE IF Includes(msg, "worker") \/ Includes(msg, "pdf.js")
    THEN [type |-> "configuration", recoverable |-> TRUE,
          userMessage |-> <<"PDF processing configuration issue">>]
    ELSE IF Includes(msg, "format") \/ Includes(msg, "corrupt") \/ Includes(msg, "invalid")
    THEN [type |-> "file_format", recoverable |-> FALSE,
          userMessage |-> <<"appears to be corrupted or in an unsupported format", filename>>]
    ELSE [type |-> "processing", recoverable |-> TRUE,
          userMessage |-> <<"Error processing", filename, msg>>]

\* ------------------------------------------------------------------ state
VARIABLES
    files,              \* the input list (File objects: name, size, type)
    workerInitialized,  \* module-level flags of initializePDFWorker
    workerFailed,
    isProcessing,       \* React state
    stats,
    extractedData,
    pc,                 \* position of processFiles
    idx,                \* loop variable i of processFiles, 1-based
    results,            \* local list `results` of processFiles
    mainWake,           \* timer the main loop is waiting on
    outer,              \* timer of timeoutPromise of the file in flight
    pipe,               \* per file: its fileProcessingPromise and pipeline
    elapsed,            \* time since the race of the file in flight began
    timed,              \* whether durations are measured in this run
    faults,             \* failures and timeouts the environment caused so far
    extractionSettings, \* React state: the ten toggles
    sample,             \* a text handed to extractDataFromText on its own
    runs,               \* the calls of extractDataFromText made on their own
    calls,              \* the invocations of processFiles made from the Start
                        \* Processing button: position, loop variable and
                        \* local list `results` of each
    scope               \* what the environment may do in this run: the page
                        \* counts of documents, the texts of pages and the
                        \* number of failures

vars == <<files, workerInitialized, workerFailed, isProcessing, stats,
          extractedData, pc, idx, results, mainWake, outer, pipe, elapsed,
          timed, faults, extractionSettings, sample, runs, calls, scope>>

\* The timer or operation t is the next event.
Due(t) == t.on /\ (timed => t.ms = 0)
\* A failure of the environment (an error of the reader, of pdf.js or of the
\* worker test, or an operation so slow that a timer fires). Runs over
\* whose durations are left open are explored up to scope.faults of them.
Fault == (timed \/ faults < scope.faults) /\ faults' = IF timed THEN faults ELSE faults + 1
NoFault == UNCHANGED faults
\* The durations an external operation may take.
Waits(S) == IF timed THEN S ELSE {After(0)}
\* The page counts a decoded document may have.
PageCounts == scope.pages

N == Len(files)
NoFile == <<>>
NoMsg == <<>>
NoRec == [filename |-> NoFile, status |-> "none", errorMessage |-> NoMsg, fields |-> {}]
NoText == [len |-> 0, m |-> NoMatches]

Pending == [state |-> "pending", rec |-> NoRec, msg |-> NoMsg]

IdlePipe ==
    [pc |-> "none", wake |-> Off, timer |-> Off, retryCount |-> 0,
     attempts |-> 0, maxPages |-> 0, pageNum |-> 0, batchStart |-> 0,
     processedPages |-> 0, failedPages |-> 0, fullText |-> NoText,
     err0 |-> NoMsg, task |-> "none", promise |-> Pending,
     failures |-> 0, lastError |-> "", numPages |-> 0, fetched |-> <<>>,
     chars |-> 0, checked |-> {}]

InitialStats ==
    [total |-> 0, processed |-> 0, successful |-> 0, failed |-> 0, currentFile |-> NoFile]

Start(lengths, pool, measured) ==
    /\ files \in UNION {[1..n -> pool] : n \in lengths}
    /\ timed = measured
    /\ workerInitialized = FALSE
    /\ workerFailed = FALSE
    /\ isProcessing = FALSE
    /\ stats = InitialStats
    /\ extractedData = <<>>
    /\ pc = "call"
    /\ idx = 0
    /\ results = <<>>
    /\ mainWake = Off
    /\ outer = Off
    /\ pipe = [i \in 1..Len(files) |-> IdlePipe]
    /\ elapsed = 0
    /\ faults = 0
    /\ calls = <<>>

\* No extraction is run on its own; the toggles are as mounted.
Mounted == extractionSettings = AllOn /\ sample = NoText /\ runs = <<>>

Init ==
    /\ Start(0..NumFiles, BatchPool, FALSE) /\ Mounted
    /\ scope = [pages |-> 1..MaxNumPages, texts |-> {t \in PageTexts : t.len # 20},
                faults |-> MaxFaults]
InitTimed ==
    /\ Start({1}, FilePool, TRUE) /\ Mounted
    /\ scope = [pages |-> 1..MaxTimedPages, texts |-> PageTexts, faults |-> 0]

File(i) == [name |-> FileName(i), size |-> files[i].size, type |-> files[i].type]

\* --------------------------------------------------- extractDataFromText
\* Variant in which the e-mail address is extracted whatever its toggle.
ToggleEmailStuck(c) == c = "email" \/ extractionSettings[c]
\* `if (extractionSettings.extractX)` of category c.
Toggle(c) == extractionSettings[c]

\* The value rule r of category c produces, and whether it passes the
\* check of the category.
Value(c, r, outcome) == [category |-> c, rule |-> r, passes |-> outcome = "ok"]

\* The loop over the rules of category c from rule r on, outs being the
\* outcomes of the rules on the text and cur the value assigned so far
\* (a set: empty or one value).
RECURSIVE TryRules(_, _, _, _)
TryRules(c, outs, r, cur) ==
    IF r > RuleCount[c] THEN cur
    ELSE IF outs[r] = "none" THEN TryRules(c, outs, r + 1, cur)
    ELSE IF Kind[c] = "first" THEN {Value(c, r, outs[r])}
    ELSE IF Kind[c] = "usable"
    THEN IF outs[r] = "ok" THEN {Value(c, r, outs[r])}
         ELSE TryRules(c, outs, r + 1, cur)
    ELSE IF outs[r] = "ok" THEN {Value(c, r, outs[r])}
         ELSE TryRules(c, outs, r + 1, {Value(c, r, outs[r])})

\* The fields category c sets, as pairs of field name and value.
ExtractCategory(c, text) ==
    IF Toggle(c)
    THEN {<<f, v>> : f \in FieldsOfCategory(c), v \in TryRules(c, text.m[c], 1, {})}
    ELSE {}

\* The fields a text yields; the regular expressions raise no exception.
FieldsOf(text) == UNION {ExtractCategory(c, text) : c \in Categories}

\* The record returned by the call before, if any.
LastData == IF runs = <<>> THEN NoRec ELSE runs[Len(runs)].data

\* Variant in which the record of the call before is filled in again.
NewDataKeepsFields(prev, filename) ==
    [prev EXCEPT !.filename = filename, !.status = "success", !.errorMessage = NoMsg]
\* `const data = { filename, status: 'success' }`: a fresh record, whatever
\* the call before returned.
NewData(prev, filename) ==
    [filename |-> filename, status |-> "success", errorMessage |-> NoMsg,
     fields |-> {}]

extractDataFromText(text, filename) ==
    [NewData(LastData, filename) EXCEPT !.fields = @ \cup FieldsOf(text)]

\* The names of the fields a record holds.
Populated(data) == {fv[1] : fv \in data.fields}

\* Variant of the validation that looks at the basic data only.
QualityGateBasicOnly(data) ==
    IF Populated(data) \cap {"firstName", "email", "phone"} = {}
    THEN [data EXCEPT !.status = "error",
                      !.errorMessage = <<"No recognizable CV data found">>]
    ELSE data

\* Variant of the validation that sets the message and leaves the status.
QualityGateMessageOnly(data) ==
    IF Populated(data) \cap {"firstName", "email", "phone", "skills", "currentRole", "experience"} = {}
    THEN [data EXCEPT !.errorMessage = <<"No recognizable CV data found">>]
    ELSE data

\* Data quality validation of processFiles.
QualityGate(data) ==
    LET hasBasicData == Populated(data) \cap {"firstName", "email", "phone"} # {}
        hasDetailedData == Populated(data) \cap {"skills", "currentRole", "experience"} # {}
    IN  IF ~hasBasicData /\ ~hasDetailedData
        THEN [data EXCEPT !.status = "error",
                          !.errorMessage = <<"No recognizable CV data found">>]
        ELSE data

Fulfilled(rec) == [state |-> "fulfilled", rec |-> rec, msg |-> NoMsg]
Rejected(msg) == [state |-> "rejected", rec |-> NoRec, msg |-> msg]

\* Variant without the minimum length of the text.
FileProcessingNoMinimum(f, text) ==
    IF text.len = 0
    THEN Rejected(<<"No text content extracted">>)
    ELSE Fulfilled(QualityGate(extractDataFromText(text, f.name)))

\* Body of fileProcessingPromise after `await extractTextFromPDF(file)`.
FileProcessing(f, text) ==
    IF text.len = 0
    THEN Rejected(<<"No text content extracted">>)
    ELSE IF text.len < MIN_TEXT
    THEN Rejected(<<"Extracted text too short", text.len>>)
    ELSE Fulfilled(QualityGate(extractDataFromText(text, f.name)))

\* ---------------------------------------------------- extractTextFromPDF
\* The pipeline of a file stops: nothing of it is scheduled any more and the
\* locals of its handlers are gone.
Finish(p) ==
    [IdlePipe EXCEPT !.pc = "finished", !.attempts = p.attempts,
                     !.task = p.task, !.promise = p.promise,
                     !.failures = p.failures, !.lastError = p.lastError,
                     !.chars = p.chars]

\* The promise of the attempt at level p.retryCount is rejected with msg.
\* A nested attempt's rejection is swallowed by the catch of its parent,
\* which rejects with its own userMessage, so the promise of attempt 0,
\* and with it fileProcessingPromise, is rejected with the userMessage of
\* attempt 0. A promise that is already settled stays as it is.
RejectTop(p, msg) ==
    IF p.promise.state = "pending"
    THEN [p EXCEPT !.promise = Rejected(IF p.retryCount = 0 THEN msg ELSE p.err0)]
    ELSE p

\* The attempt resolves with the text; every parent resolves with it too.
ResolveTop(p, f, text) ==
    IF p.promise.state = "pending"
    THEN [p EXCEPT !.promise = FileProcessing(f, text)]
    ELSE p

\* extractTextFromPDF(file, k) up to reader.readAsArrayBuffer(file). The
\* pipeline keeps the checks of the file made before the attempt (checked).
StartAttempt(p, f, k) ==
    LET q == [p EXCEPT !.retryCount = k]
    IN  IF f.size = 0
        THEN Finish(RejectTop(q, <<"File is empty", f.name>>))
        ELSE IF f.size > MaxExtractBytes
        THEN Finish(RejectTop(q, <<"File is too large", f.name>>))
        ELSE [q EXCEPT !.pc = "reading", !.wake = After(0),
                       !.timer = After(TIMEOUT_MS), !.attempts = @ + 1,
                       !.maxPages = 0, !.pageNum = 0, !.batchStart = 0,
                       !.processedPages = 0, !.failedPages = 0,
                       !.fullText = NoText, !.numPages = 0, !.fetched = <<>>,
                       !.checked = {"empty", "size"}]

\* Variant of the validation that lets an empty file through to the reader.
StartFileReadsEmpty(p, f) ==
    IF f.size > MaxFileBytes
    THEN Finish([p EXCEPT !.promise = Rejected(<<"File too large", f.size \div MB>>)])
    ELSE IF ~TypeIncludesPdf(f.type)
    THEN Finish([p EXCEPT !.promise = Rejected(<<"Invalid file type", f.type>>)])
    ELSE [p EXCEPT !.pc = "reading", !.wake = After(0),
                   !.timer = After(TIMEOUT_MS), !.attempts = @ + 1]

\* The async body of fileProcessingPromise up to its first await.
StartFile(p, f) ==
    IF f.size = 0
    THEN Finish([p EXCEPT !.promise = Rejected(<<"File is empty (0 bytes)">>)])
    ELSE IF f.size > MaxFileBytes
    THEN Finish([p EXCEPT !.promise = Rejected(<<"File too large", f.size \div MB>>)])
    ELSE IF ~TypeIncludesPdf(f.type)
    THEN Finish([p EXCEPT !.promise = Rejected(<<"Invalid file type", f.type>>)])
    ELSE [StartAttempt(p, f, 0) EXCEPT !.checked = {"empty", "size", "type"}]

\* Retry decision of the catch block.
\* Variants of the retry test: one retry more, and any class retried.
CanRetryOneMore(ce, retryCount) == ce.recoverable /\ retryCount <= MAX_RETRIES
CanRetryAnyClass(ce, retryCount) == retryCount < MAX_RETRIES
CanRetry(ce, retryCount) == ce.recoverable /\ retryCount < MAX_RETRIES

BackoffWait(retryCount) == After(BACKOFF_MS * (retryCount + 1))

\* The catch block of reader.onload for an error with message msg, raised
\* in pipeline i whose record after the try part is p. The pipeline keeps
\* count of the errors caught (failures) and of the attempts begun
\* (attempts), and the message of the last error caught.
Catch(i, p, msg) ==
    LET f == File(i)
        ce == classifyError(msg, f.name)
        q == [p EXCEPT !.timer = Off,
                       !.err0 = IF p.retryCount = 0 THEN ce.userMessage ELSE @,
                       !.failures = @ + 1, !.lastError = msg]
    IN  IF CanRetry(ce, q.retryCount)
        THEN IF ce.type = "configuration" /\ workerInitialized
             THEN /\ workerInitialized' = FALSE
                  /\ UNCHANGED workerFailed
                  /\ IF workerFailed
                     THEN pipe' = [pipe EXCEPT ![i] =
                              [q EXCEPT !.pc = "backoff",
                                        !.wake = BackoffWait(q.retryCount)]]
                     ELSE \E w \in Waits(InitWaits) :
                              pipe' = [pipe EXCEPT ![i] =
                                  [q EXCEPT !.pc = "reinit", !.wake = w]]
             ELSE /\ UNCHANGED <<workerInitialized, workerFailed>>
                  /\ pipe' = [pipe EXCEPT ![i] =
                         [q EXCEPT !.pc = "backoff",
                                   !.wake = BackoffWait(q.retryCount)]]
        ELSE /\ UNCHANGED <<workerInitialized, workerFailed>>
             /\ pipe' = [pipe EXCEPT ![i] = Finish(RejectTop(q, ce.userMessage))]

BatchSize(f) == IF f.size > 10 * MB THEN 3 ELSE 5
\* Variant of the batch end that is not cut at maxPages.
BatchEndUncapped(p, f) == p.batchStart + BatchSize(f)
BatchEnd(p, f) == Min(p.batchStart + BatchSize(f), p.maxPages)

\* The outcomes of the rules on the text a followed by the text b: a match
\* in a comes first.
JoinMatches(a, b) ==
    [c \in Categories |->
        [r \in 1..RuleCount[c] |-> IF a[c][r] # "none" THEN a[c][r] ELSE b[c][r]]]

\* cleanText of the pages read so far: page texts joined by one space.
AddPage(fullText, pageText) ==
    IF pageText.len > 5
    THEN [len |-> IF fullText.len = 0 THEN pageText.len
                  ELSE fullText.len + 1 + pageText.len,
          m |-> JoinMatches(fullText.m, pageText.m)]
    ELSE fullText

\* After the page loop: cleanup, clearTimeout, validation of cleanText.
\* The pipeline keeps the length of the last cleanText (chars).
Assemble(i, p) ==
    LET cleanText == p.fullText
        q == [p EXCEPT !.task = "destroyed", !.timer = Off, !.chars = cleanText.len]
    IN  IF cleanText.len = 0
        THEN Catch(i, q, "No readable text found. File may be image-based or corrupted.")
        ELSE IF cleanText.len < MIN_TEXT /\ q.failedPages > q.processedPages
        THEN Catch(i, q, "Very little text extracted. File may be image-based.")
        ELSE /\ pipe' = [pipe EXCEPT ![i] = Finish(ResolveTop(q, File(i), cleanText))]
             /\ UNCHANGED <<workerInitialized, workerFailed>>

\* The loops move on from page p.pageNum: the next page of the batch, the
\* first page of the next batch, or the end of the page loop.
Advance(i, p, broke) ==
    LET f == File(i)
        next == p.batchStart + BatchSize(f)
    IN  IF ~broke /\ p.pageNum + 1 <= BatchEnd(p, f)
        THEN /\ \E w \in Waits(PageWaits) :
                    pipe' = [pipe EXCEPT ![i] =
                        [p EXCEPT !.pageNum = @ + 1, !.wake = w,
                                  !.fetched = Append(@, p.pageNum + 1)]]
             /\ UNCHANGED <<workerInitialized, workerFailed>>
        ELSE IF next < p.maxPages
        THEN /\ \E w \in Waits(PageWaits) :
                    pipe' = [pipe EXCEPT ![i] =
                        [p EXCEPT !.batchStart = next, !.pageNum = next + 1,
                                  !.fetched = Append(@, next + 1), !.wake = w]]
             /\ UNCHANGED <<workerInitialized, workerFailed>>
        ELSE Assemble(i, p)

Running(p) == p.pc \notin {"none", "finished"}
mainVars == <<isProcessing, stats, extractedData, pc, idx, results, mainWake, outer, elapsed>>

\* FileReader delivers its event: onerror, or onload, which calls
\* pdfjsLib.getDocument and awaits loadingTask.promise.
ReaderEvent(i) ==
    /\ pipe[i].pc = "reading" /\ Due(pipe[i].wake)
    /\ \/ /\ Fault
          /\ pipe' = [pipe EXCEPT ![i] =
                 Finish(RejectTop([pipe[i] EXCEPT !.timer = Off],
                                  <<"Failed to read", File(i).name>>))]
          /\ UNCHANGED <<workerInitialized, workerFailed>>
       \/ /\ Fault
          /\ Catch(i, pipe[i], "Failed to read file as ArrayBuffer")
       \/ /\ NoFault
          /\ \E w \in Waits(DecodeWaits) :
                 pipe' = [pipe EXCEPT ![i] =
                     [pipe[i] EXCEPT !.pc = "loading", !.wake = w, !.task = "loading"]]
          /\ UNCHANGED <<workerInitialized, workerFailed>>
    /\ UNCHANGED <<files, timed, extractionSettings, sample, runs, calls, scope, mainVars>>

\* loadingTask.promise settles: the document with its page count, or an
\* error, on which the loading task is destroyed and the error rethrown.
LoadDone(i) ==
    /\ pipe[i].pc = "loading" /\ Due(pipe[i].wake)
    /\ \/ /\ Fault
          /\ \E msg \in DecodeErrors :
                 Catch(i, [pipe[i] EXCEPT !.task = "destroyed"], msg)
       \/ /\ NoFault
          /\ \E numPages \in PageCounts, w \in Waits(PageWaits) :
                 pipe' = [pipe EXCEPT ![i] =
                     [pipe[i] EXCEPT !.task = "open", !.pc = "page",
                                     !.numPages = numPages,
                                     !.maxPages = Min(numPages, PAGE_CAP),
                                     !.batchStart = 0, !.pageNum = 1,
                                     !.fetched = <<1>>, !.wake = w]]
          /\ UNCHANGED <<workerInitialized, workerFailed>>
    /\ UNCHANGED <<files, timed, extractionSettings, sample, runs, calls, scope, mainVars>>

\* getPage / getTextContent of page p.pageNum settle.
PageDone(i) ==
    /\ pipe[i].pc = "page" /\ Due(pipe[i].wake)
    /\ \/ /\ NoFault
          /\ \E t \in scope.texts :
                 Advance(i, [pipe[i] EXCEPT
                                !.fullText = AddPage(@, t),
                                !.processedPages = IF t.len > 5 THEN @ + 1 ELSE @],
                         FALSE)
       \/ /\ Fault
          /\ LET p == [pipe[i] EXCEPT !.failedPages = @ + 1]
             IN  Advance(i, p, 10 * p.failedPages > 7 * p.maxPages)
    /\ UNCHANGED <<files, timed, extractionSettings, sample, runs, calls, scope, mainVars>>

\* The test of initializePDFWorker ended (reached from the catch block).
ReinitDone(i) ==
    /\ pipe[i].pc = "reinit" /\ Due(pipe[i].wake)
    /\ \/ workerInitialized' = TRUE /\ UNCHANGED workerFailed /\ NoFault
       \/ workerFailed' = TRUE /\ UNCHANGED workerInitialized /\ Fault
    /\ pipe' = [pipe EXCEPT ![i] =
           [pipe[i] EXCEPT !.pc = "backoff",
                           !.wake = BackoffWait(pipe[i].retryCount)]]
    /\ UNCHANGED <<files, timed, extractionSettings, sample, runs, calls, scope, mainVars>>

\* The wait before the retry is over: extractTextFromPDF(file, retryCount + 1).
BackoffDone(i) ==
    /\ pipe[i].pc = "backoff" /\ Due(pipe[i].wake)
    /\ pipe' = [pipe EXCEPT ![i] =
           StartAttempt(pipe[i], File(i), pipe[i].retryCount + 1)]
    /\ UNCHANGED <<files, timed, extractionSettings, sample, runs, calls, scope, faults, workerInitialized, workerFailed, mainVars>>

\* The timer of extractTextFromPDF fires: it rejects the promise of the
\* attempt and does nothing else; the onload handler goes on.
ExtractTimeout(i) ==
    /\ Due(pipe[i].timer)
    /\ Fault
    /\ pipe' = [pipe EXCEPT ![i] =
           [RejectTop(pipe[i], <<"Processing timeout", File(i).name, TIMEOUT_MS \div 1000>>)
               EXCEPT !.timer = Off]]
    /\ UNCHANGED <<files, timed, extractionSettings, sample, runs, calls, scope, workerInitialized, workerFailed, mainVars>>

\* ------------------------------------------------------------ processFiles
\* file.size / 1024 / 1024 * 5000, clamped; the sizes are whole megabytes.
\* Variant of the budget without its 30 s floor.
timeoutMsNoFloor(f) == Min(90000, ((f.size \div 1024) \div 1024) * 5000)
timeoutMs(f) == Min(90000, Max(30000, ((f.size \div 1024) \div 1024) * 5000))

ErrorData(f, errorMessage) ==
    [filename |-> f.name, status |-> "error", errorMessage |-> errorMessage,
     fields |-> {}]

\* Variant that puts the new record first.
PushResultFront(list, rec) == <<rec>> \o list
PushResult(list, rec) == Append(list, rec)

\* Variant that counts only successes.
StatsOnRecordSuccessOnly(prev, i, rec) ==
    [prev EXCEPT !.processed = i,
                 !.successful = @ + (IF rec.status = "success" THEN 1 ELSE 0)]

\* setStats after the race returned a record.
StatsOnRecord(prev, i, rec) ==
    [prev EXCEPT !.processed = i,
                 !.successful = @ + (IF rec.status = "success" THEN 1 ELSE 0),
                 !.failed = @ + (IF rec.status = "error" THEN 1 ELSE 0)]

\* Variant of the catch block that leaves failed alone.
StatsOnThrowNoFail(prev, i) == [prev EXCEPT !.processed = i]
\* Variant of the catch block that leaves processed alone.
StatsOnThrowKeepsProcessed(prev, i) == [prev EXCEPT !.failed = @ + 1]

\* setStats of the catch block.
StatsOnThrow(prev, i) ==
    [prev EXCEPT !.processed = i, !.failed = @ + 1]

\* Variant in which an error record ends the loop.
AfterFilePcAbort(i, n, rec) ==
    IF i < n /\ rec.status = "success" THEN "pause" ELSE "done"

\* Where the loop goes after file i of n whose record is rec.
AfterFilePc(i, n, rec) == IF i < n THEN "pause" ELSE "done"

\* Top of the loop body for file i up to `await Promise.race(...)`.
BeginFile(i, st) ==
    /\ idx' = i
    /\ stats' = [st EXCEPT !.currentFile = File(i).name]
    /\ pipe' = [pipe EXCEPT ![i] = StartFile(pipe[i], File(i))]
    /\ outer' = After(timeoutMs(File(i)))
    /\ elapsed' = 0
    /\ mainWake' = Off
    /\ pc' = "race"

\* End of the loop body for the file in flight, whose record is rec and
\* whose stats update gave st: publish the results, then pause before the
\* next file or finish the batch.
EndFile(rec, st) ==
    LET next == AfterFilePc(idx, N, rec)
    IN  /\ results' = PushResult(results, rec)
        /\ extractedData' = results'
        /\ outer' = Off
        /\ elapsed' = 0
        /\ pc' = next
        /\ IF next = "pause"
           THEN /\ mainWake' = After(PAUSE_MS)
                /\ stats' = st
                /\ UNCHANGED isProcessing
           ELSE /\ mainWake' = Off
                /\ stats' = [st EXCEPT !.currentFile = NoFile]
                /\ isProcessing' = FALSE
        /\ UNCHANGED <<files, timed, extractionSettings, sample, runs, calls, scope, idx, pipe, workerInitialized, workerFailed>>

\* processFiles is called; with files it awaits initializePDFWorker().
Call ==
    /\ pc = "call"
    /\ IF N = 0
       THEN pc' = "returned" /\ UNCHANGED mainWake
       ELSE /\ pc' = "init"
            /\ IF workerInitialized \/ workerFailed
               THEN mainWake' = After(0)
               ELSE \E w \in Waits(InitWaits) : mainWake' = w
    /\ UNCHANGED <<files, timed, extractionSettings, sample, runs, calls, scope, faults, workerInitialized, workerFailed, isProcessing,
                   stats, extractedData, idx, results, outer, pipe, elapsed>>

\* initializePDFWorker returned: reset of the state, first file.
InitDone ==
    /\ pc = "init" /\ Due(mainWake)
    /\ IF workerInitialized \/ workerFailed
       THEN UNCHANGED <<workerInitialized, workerFailed>> /\ NoFault
       ELSE \/ workerInitialized' = TRUE /\ UNCHANGED workerFailed /\ NoFault
            \/ workerFailed' = TRUE /\ UNCHANGED workerInitialized /\ Fault
    /\ isProcessing' = TRUE
    /\ extractedData' = <<>>
    /\ BeginFile(1, [total |-> N, processed |-> 0, successful |-> 0,
                     failed |-> 0, currentFile |-> NoFile])
    /\ UNCHANGED <<files, timed, extractionSettings, sample, runs, calls, scope, results>>

\* fileProcessingPromise settled first: the race returns its record or
\* throws its error.
RaceSettled ==
    /\ pc = "race"
    /\ pipe[idx].promise.state # "pending"
    /\ NoFault
    /\ LET pr == pipe[idx].promise
       IN  IF pr.state = "fulfilled"
           THEN EndFile(pr.rec, StatsOnRecord(stats, idx, pr.rec))
           ELSE EndFile(ErrorData(File(idx), pr.msg), StatsOnThrow(stats, idx))

\* timeoutPromise rejects first. (The timer is not cleared when the file
\* ends otherwise; its late rejection has no effect and is not modelled.)
FileTimeout ==
    /\ pc = "race"
    /\ Due(outer)
    /\ pipe[idx].promise.state = "pending"
    /\ Fault
    /\ EndFile(ErrorData(File(idx),
                         <<"File processing timeout", timeoutMs(File(idx)) \div 1000>>),
               StatsOnThrow(stats, idx))

\* The pause between two files is over.
PauseDone ==
    /\ pc = "pause" /\ Due(mainWake)
    /\ BeginFile(idx + 1, stats)
    /\ UNCHANGED <<files, timed, extractionSettings, sample, runs, calls, scope, faults, workerInitialized, workerFailed, isProcessing,
                   extractedData, results>>

\* ------------------------------------------------------------------- time
Timers ==
    {mainWake, outer} \cup {pipe[i].wake : i \in 1..N} \cup {pipe[i].timer : i \in 1..N}
Armed == {t.ms : t \in {u \in Timers : u.on}}

\* Variant in which time stands still for the timers.
PassStopped(t, d) == t

Pass(t, d) == IF t.on THEN After(t.ms - d) ELSE t

\* Nothing can run now: time passes until the next timer or completion.
Tick ==
    /\ timed
    /\ pc # "call"
    /\ ~(pc = "race" /\ pipe[idx].promise.state # "pending")
    /\ Armed # {}
    /\ 0 \notin Armed
    /\ LET d == SetMin(Armed)
       IN  /\ mainWake' = Pass(mainWake, d)
           /\ outer' = Pass(outer, d)
           /\ pipe' = [i \in 1..N |->
                  [pipe[i] EXCEPT !.wake = Pass(@, d), !.timer = Pass(@, d)]]
           /\ elapsed' = IF pc = "race" THEN elapsed + d ELSE elapsed
    /\ UNCHANGED <<files, timed, extractionSettings, sample, runs, calls, scope, faults, workerInitialized, workerFailed, isProcessing,
                   stats, extractedData, pc, idx, results>>

Next ==
    \/ Call
    \/ InitDone
    \/ RaceSettled
    \/ FileTimeout
    \/ PauseDone
    \/ \E i \in 1..N : ReaderEvent(i)
    \/ \E i \in 1..N : LoadDone(i)
    \/ \E i \in 1..N : PageDone(i)
    \/ \E i \in 1..N : ReinitDone(i)
    \/ \E i \in 1..N : BackoffDone(i)
    \/ \E i \in 1..N : ExtractTimeout(i)

\* A run over one file never pauses between files.
NextTimed ==
    \/ Call
    \/ InitDone
    \/ RaceSettled
    \/ FileTimeout
    \/ Tick
    \/ \E i \in 1..N : ReaderEvent(i)
    \/ \E i \in 1..N : LoadDone(i)
    \/ \E i \in 1..N : PageDone(i)
    \/ \E i \in 1..N : ReinitDone(i)
    \/ \E i \in 1..N : BackoffDone(i)
    \/ \E i \in 1..N : ExtractTimeout(i)

Spec == Init /\ [][Next]_vars
SpecTimed == InitTimed /\ [][NextTimed]_vars

\* ------------------------------------------------------- long documents
\* Runs over one file of 1 MB (batches of 5 pages) whose document has up to MaxLoopPages pages, or one page more than the page
\* cap; durations are left open and the environment causes up to
\* MaxLoopFaults failures; a page has 3 characters or a CV text of 60.
MaxLoopPages == 4
MaxLoopFaults == 3

PagesPool == {f \in FilePool : f.type = "application/pdf" /\ f.size = 1 * MB}

InitPages ==
    /\ Start({1}, PagesPool, FALSE) /\ Mounted
    /\ scope = [pages |-> (1..MaxLoopPages) \cup {PAGE_CAP + 1},
                texts |-> {t \in PageTexts : t.len = 3 \/ t.m = CvMatches},
                faults |-> MaxLoopFaults]

NextPages ==
    \/ Call
    \/ InitDone
    \/ RaceSettled
    \/ FileTimeout
    \/ \E i \in 1..N : ReaderEvent(i)
    \/ \E i \in 1..N : LoadDone(i)
    \/ \E i \in 1..N : PageDone(i)
    \/ \E i \in 1..N : ReinitDone(i)
    \/ \E i \in 1..N : BackoffDone(i)
    \/ \E i \in 1..N : ExtractTimeout(i)

SpecPages == InitPages /\ [][NextPages]_vars


\* extractDataFromText and the validation after it (the body of
\* fileProcessingPromise from line 1005 on) applied to a text directly: to
\* the sample text as the text of file 1, or to the rich text as the text
\* of file 2, in any order, MaxRuns times at most.
MaxRuns == 3

batchVars ==
    <<files, timed, faults, workerInitialized, workerFailed, isProcessing, stats,
      extractedData, pc, idx, results, mainWake, outer, pipe, elapsed, calls, scope>>

Run(text, filename) ==
    [text |-> text, filename |-> filename,
     data |-> extractDataFromText(text, filename),
     promise |-> FileProcessing([name |-> filename], text)]

ExtractSample ==
    /\ Len(runs) < MaxRuns
    /\ runs' = Append(runs, Run(sample, FileName(1)))
    /\ UNCHANGED <<extractionSettings, sample, batchVars>>

ExtractRich ==
    /\ Len(runs) < MaxRuns
    /\ runs' = Append(runs, Run(RichText, FileName(2)))
    /\ UNCHANGED <<extractionSettings, sample, batchVars>>

InitExtract ==
    /\ Start({0}, BatchPool, FALSE)
    /\ extractionSettings \in SettingsPool
    /\ sample \in Texts
    /\ runs = <<>>
    /\ scope = [pages |-> {}, texts |-> {}, faults |-> 0]

NextExtract == ExtractSample \/ ExtractRich

SpecExtract == InitExtract /\ [][NextExtract]_vars

\* ------------------------------------------------- texts as characters
\* The extraction rules on the characters of a text. A string is a sequence
\* of characters, a character a string of TLA+; "bullet" and "middot" stand
\* for the characters U+2022 and U+00B7.
UpperSeq ==
    <<"A", "B", "C", "D", "E", "F", "G", "H", "I", "J", "K", "L", "M",
      "N", "O", "P", "Q", "R", "S", "T", "U", "V", "W", "X", "Y", "Z">>
LowerSeq ==
    <<"a", "b", "c", "d", "e", "f", "g", "h", "i", "j", "k", "l", "m",
      "n", "o", "p", "q", "r", "s", "t", "u", "v", "w", "x", "y", "z">>
Upper == {UpperSeq[j] : j \in 1..26}
Lower == {LowerSeq[j] : j \in 1..26}
Digit == {"0", "1", "2", "3", "4", "5", "6", "7", "8", "9"}
\* \s of a regular expression, and what trim() removes.
Space == {" ", "\n", "\t", "\r"}
\* A letter in the other case (flag i); any other character as it is.
OtherCase ==
    [ch \in Upper \cup Lower |->
        LET j == CHOOSE k \in 1..26 : ch \in {UpperSeq[k], LowerSeq[k]}
        IN  IF ch = UpperSeq[j] THEN LowerSeq[j] ELSE UpperSeq[j]]

\* Regular expressions: one character of a set, any character, a word, a
\* concatenation, an alternation, a repetition {lo,hi} (hi = -1: no upper
\* limit) that is greedy or lazy, a lookahead, the anchors ^ and $, and the
\* parentheses of capture group 1. Any character is [k |-> "any"], the
\* anchors are [k |-> "bol"] and [k |-> "eol"].
In(S) == [k |-> "set", s |-> S]
Word(w) == [k |-> "word", w |-> w]
Cat(parts) == [k |-> "cat", parts |-> parts]
Alt(parts) == [k |-> "alt", parts |-> parts]
Rep(r, lo, hi, greedy) == [k |-> "rep", r |-> r, lo |-> lo, hi |-> hi, greedy |-> greedy]
Opt(r) == Rep(r, 0, 1, TRUE)
Star(r) == Rep(r, 0, -1, TRUE)
Plus(r) == Rep(r, 1, -1, TRUE)
Look(r) == [k |-> "look", r |-> r]
Group(r) == Cat(<<[k |-> "open"], r, [k |-> "close"]>>)
\* A pattern with its flags.
Pattern(re, flags) ==
    [re |-> re, g |-> "g" \in flags, i |-> "i" \in flags, m |-> "m" \in flags,
     s |-> "s" \in flags]

\* The character ch matches the one-character expression r of pattern p.
Accepts(r, p, ch) ==
    IF r.k = "set"
    THEN ch \in r.s \/ (p.i /\ ch \in DOMAIN OtherCase /\ OtherCase[ch] \in r.s)
    ELSE p.s \/ ch \notin {"\n", "\r"}

\* The backtracking matcher: the first way in which the expressions rs, one
\* after the other, match the text t from position i on, in the order in
\* which the engine tries the ways: a sequence of its end and the span of
\* group 1, or the empty sequence when there is no way.
RECURSIVE Ways(_, _, _, _, _)
Ways(rs, p, t, i, cap) ==
    IF rs = <<>> THEN <<[e |-> i, cap |-> cap]>>
    ELSE
    LET r == Head(rs)
        rest == Tail(rs)
    IN  CASE r.k \in {"set", "any"} ->
                IF i <= Len(t) /\ Accepts(r, p, t[i])
                THEN Ways(rest, p, t, i + 1, cap) ELSE <<>>
          [] r.k = "word" ->
                IF /\ i + Len(r.w) <= Len(t) + 1
                   /\ \A j \in 1..Len(r.w) : Accepts(In({r.w[j]}), p, t[i + j - 1])
                THEN Ways(rest, p, t, i + Len(r.w), cap) ELSE <<>>
          [] r.k = "cat" -> Ways(r.parts \o rest, p, t, i, cap)
          [] r.k = "alt" ->
                IF r.parts = <<>> THEN <<>>
                ELSE LET first == Ways(<<Head(r.parts)>> \o rest, p, t, i, cap)
                     IN  IF first # <<>> THEN first
                         ELSE Ways(<<Alt(Tail(r.parts))>> \o rest, p, t, i, cap)
          [] r.k = "rep" /\ r.r.k \in {"set", "any"} /\ r.hi # 1 ->
                \* a run of single characters: the longest (greedy) or the
                \* shortest (lazy) run after which the rest matches
                LET stops == {j \in i..Len(t) : ~Accepts(r.r, p, t[j])}
                    run == (IF stops = {} THEN Len(t) + 1 ELSE SetMin(stops)) - i
                    most == IF r.hi = -1 THEN run ELSE Min(run, r.hi)
                    ks == {k \in r.lo..most : Ways(rest, p, t, i + k, cap) # <<>>}
                IN  IF ks = {} THEN <<>>
                    ELSE Ways(rest, p, t,
                              i + (IF r.greedy THEN SetMax(ks) ELSE SetMin(ks)), cap)
          [] r.k = "rep" /\ ~(r.r.k \in {"set", "any"} /\ r.hi # 1) ->
                LET more == IF r.hi = 0 THEN <<>>
                            ELSE Ways(<<r.r, Rep(r.r, Max(r.lo - 1, 0),
                                                 IF r.hi = -1 THEN -1 ELSE r.hi - 1,
                                                 r.greedy)>> \o rest, p, t, i, cap)
                    stop == IF r.lo = 0 THEN Ways(rest, p, t, i, cap) ELSE <<>>
                IN  IF r.greedy
                    THEN IF more # <<>> THEN more ELSE stop
                    ELSE IF stop # <<>> THEN stop ELSE more
          [] r.k = "look" ->
                IF Ways(<<r.r>>, p, t, i, cap) # <<>>
                THEN Ways(rest, p, t, i, cap) ELSE <<>>
          [] r.k = "bol" ->
                IF i = 1 \/ (p.m /\ t[i - 1] \in {"\n", "\r"})
                THEN Ways(rest, p, t, i, cap) ELSE <<>>
          [] r.k = "eol" ->
                IF i = Len(t) + 1 \/ (p.m /\ t[i] \in {"\n", "\r"})
                THEN Ways(rest, p, t, i, cap) ELSE <<>>
          [] r.k = "open" -> Ways(rest, p, t, i, [a |-> i, b |-> 0])
          [] r.k = "close" -> Ways(rest, p, t, i, [cap EXCEPT !.b = i])

\* The match that starts at the first of the positions starts.
ExecAt(p, t, starts) ==
    IF starts = {} THEN <<>>
    ELSE <<[s |-> SetMin(starts)]
             @@ Ways(<<p.re>>, p, t, SetMin(starts), [a |-> 0, b |-> 0])[1]>>

\* The leftmost match from position s on: its start, its end and the span
\* of group 1; no match is the empty sequence.
Exec(p, t, s) ==
    ExecAt(p, t, {j \in s..(Len(t) + 1) :
                     Ways(<<p.re>>, p, t, j, [a |-> 0, b |-> 0]) # <<>>})

\* t.substring(a - 1, b - 1): the characters from position a up to b.
Slice(t, a, b) == SubSeq(t, a, b - 1)

\* Every match of a pattern with flag g, one after the other: the match x
\* and the matches after it.
RECURSIVE AllMatches(_, _, _)
MatchesFrom(p, t, x) ==
    IF x = <<>> THEN <<>>
    ELSE <<Slice(t, x[1].s, x[1].e)>>
             \o AllMatches(p, t, IF x[1].e = x[1].s THEN x[1].e + 1 ELSE x[1].e)

AllMatches(p, t, s) == MatchesFrom(p, t, Exec(p, t, s))

\* The result of a match x without flag g: the match followed by what
\* group 1 captured (one entry only when the pattern has no group or the
\* group took no part).
MatchResult(t, x) ==
    IF x = <<>> THEN <<>>
    ELSE IF x[1].cap.a = 0 \/ x[1].cap.b = 0 THEN <<Slice(t, x[1].s, x[1].e)>>
    ELSE <<Slice(t, x[1].s, x[1].e), Slice(t, x[1].cap.a, x[1].cap.b)>>

\* text.match(pattern): null (the empty sequence); with flag g the matches.
match(t, p) ==
    IF p.g THEN AllMatches(p, t, 1) ELSE MatchResult(t, Exec(p, t, 1))

\* The k-th position, in ascending order, of a set of positions.
Nth(P, k) == CHOOSE j \in P : Cardinality({x \in P : x <= j}) = k

\* t.trim()
trim(t) ==
    LET keep == {j \in 1..Len(t) : t[j] \notin Space}
    IN  IF keep = {} THEN <<>> ELSE Slice(t, SetMin(keep), SetMax(keep) + 1)

\* The characters of t, each with the character before it.
WithBefore(t) ==
    SubSeq([j \in 1..Len(t) |-> [ch |-> t[j], before |-> IF j = 1 THEN "" ELSE t[j - 1]]],
           1, Len(t))

\* Variant that collapses runs of blanks only.
replaceBlanks(t) ==
    LET first == SelectSeq(WithBefore(t), LAMBDA x : x.ch # " " \/ x.before # " ")
    IN  SubSeq([k \in 1..Len(first) |-> first[k].ch], 1, Len(first))

\* t.replace(/\s+/g, ' ')
replaceSpaces(t) ==
    LET first == SelectSeq(WithBefore(t),
                           LAMBDA x : x.ch \notin Space \/ x.before \notin Space)
    IN  SubSeq([k \in 1..Len(first) |-> IF first[k].ch \in Space THEN " " ELSE first[k].ch],
               1, Len(first))

\* t.split(/[...]/) for the set S of separators
split(t, S) ==
    LET cuts == {j \in 1..Len(t) : t[j] \in S}
        n == Cardinality(cuts)
        Cut(k) == IF k = 0 THEN 0 ELSE IF k = n + 1 THEN Len(t) + 1 ELSE Nth(cuts, k)
    IN  SubSeq([k \in 1..(n + 1) |-> Slice(t, Cut(k - 1) + 1, Cut(k))], 1, n + 1)

\* parts.join(sep)
RECURSIVE join(_, _)
join(parts, sep) ==
    IF parts = <<>> THEN <<>>
    ELSE IF Len(parts) = 1 THEN parts[1]
    ELSE parts[1] \o sep \o join(Tail(parts), sep)

\* The patterns of lines 770-855.
Separator == {"-", "."} \cup Space
NameWords ==
    Cat(<<In(Upper), Plus(In(Lower)),
          Star(Cat(<<Plus(In(Space)), In(Upper), Star(In(Lower))>>)),
          Plus(In(Space)), In(Upper), Plus(In(Lower))>>)
CapWords ==
    Cat(<<In(Upper), Plus(In(Lower)),
          Star(Cat(<<Plus(In(Space)), In(Upper), Plus(In(Lower))>>))>>)
namePatterns ==
    <<Pattern(Cat(<<[k |-> "bol"], Group(NameWords)>>), {"m"}),
      Pattern(Cat(<<Word(<<"N", "a", "m", "e">>), Opt(In({":"})), Star(In(Space)),
                    Group(NameWords)>>), {"i"}),
      Pattern(Cat(<<Group(Cat(<<In(Upper), Plus(In(Upper \cup Space))>>)),
                    Look(Cat(<<Star(In(Space)), In({"\n", "\r"})>>))>>), {"m"})>>
emailPattern ==
    Pattern(Cat(<<Plus(In(Upper \cup Lower \cup Digit \cup {".", "_", "%", "+", "-"})),
                  In({"@"}),
                  Plus(In(Upper \cup Lower \cup Digit \cup {".", "-"})),
                  In({"."}), Rep(In(Upper \cup Lower), 2, -1, TRUE)>>), {})
phonePatterns ==
    <<Pattern(Cat(<<Opt(Cat(<<Opt(In({"+"})), In({"1"}), Opt(In(Separator))>>)),
                    Opt(In({"("})), Group(Rep(In(Digit), 3, 3, TRUE)), Opt(In({")"})),
                    Opt(In(Separator)), Rep(In(Digit), 3, 3, TRUE), Opt(In(Separator)),
                    Rep(In(Digit), 4, 4, TRUE)>>), {}),
      Pattern(Cat(<<Opt(Cat(<<In({"+"}), Rep(In(Digit), 1, 3, TRUE), Opt(In(Separator))>>)),
                    Opt(Cat(<<In({"("}), Rep(In(Digit), 1, 4, TRUE), In({")"}),
                              Opt(In(Separator))>>)),
                    Rep(In(Digit), 1, 4, TRUE), Opt(In(Separator)), Rep(In(Digit), 1, 4, TRUE),
                    Opt(In(Separator)), Rep(In(Digit), 1, 9, TRUE)>>), {})>>
locationPatterns ==
    <<Pattern(Group(Cat(<<In(Upper), Plus(In(Lower)), Opt(In({","})),
                          Plus(In(Space)), Rep(In(Upper), 2, 3, TRUE),
                          Opt(Cat(<<Plus(In(Space)), Rep(In(Digit), 5, 5, TRUE)>>))>>)), {"g"}),
      Pattern(Group(Cat(<<CapWords, Opt(In({","})), Plus(In(Space)), CapWords>>)),
              {"g"}),
      Pattern(Cat(<<Word(<<"L", "o", "c", "a", "t", "i", "o", "n">>), Opt(In({":"})), Star(In(Space)),
                    Group(Cat(<<In(Upper), Plus(In(Lower)),
                                Star(Cat(<<Plus(In(Space \cup {","})), In(Upper),
                                           Plus(In(Lower))>>))>>))>>), {"i"})>>
skillsPatterns ==
    <<Pattern(Cat(<<Alt(<<Word(<<"S", "K", "I", "L", "L", "S">>),
                          Cat(<<Word(<<"T", "E", "C", "H", "N", "I", "C", "A", "L">>), Plus(In(Space)), Word(<<"S", "K", "I", "L", "L", "S">>)>>),
                          Cat(<<Word(<<"C", "O", "R", "E">>), Plus(In(Space)), Word(<<"C", "O", "M", "P", "E", "T", "E", "N", "C", "I", "E", "S">>)>>),
                          Word(<<"T", "E", "C", "H", "N", "O", "L", "O", "G", "I", "E", "S">>),
                          Cat(<<Word(<<"P", "R", "O", "G", "R", "A", "M", "M", "I", "N", "G">>), Plus(In(Space)),
                                Word(<<"L", "A", "N", "G", "U", "A", "G", "E", "S">>)>>)>>),
                    Star(In({":"} \cup Space)), Opt(In({"\n"})),
                    Group(Rep([k |-> "any"], 0, -1, FALSE)),
                    Look(Alt(<<Cat(<<In({"\n"}), Star(In(Space)),
                                     Rep(In(Upper \cup Space), 2, -1, TRUE),
                                     In({":", "\n"})>>),
                               [k |-> "eol"]>>))>>), {"i", "s"}),
      Pattern(Cat(<<Word(<<"S", "k", "i", "l", "l", "s">>), Plus(In({":"} \cup Space)),
                    Group(Rep([k |-> "any"], 0, -1, FALSE)),
                    Look(Alt(<<Cat(<<In({"\n"}), Star(In(Space)), In(Upper),
                                     Star(In(Lower)), In({":"} \cup Space)>>),
                               [k |-> "eol"]>>))>>), {"i", "s"})>>

\* The first of the matches that is not null, or null.
firstHit(matches) ==
    IF \A j \in 1..Len(matches) : matches[j] = <<>> THEN <<>>
    ELSE matches[SetMin({j \in 1..Len(matches) : matches[j] # <<>>})]

\* ------------------------------------ extractDataFromText on characters
\* The first pattern of the list that matches gives the match:
\* `for (const pattern of patterns) { const m = text.match(pattern); if (m) { ...; break; } }`
firstMatch(text, patterns) ==
    firstHit(SubSeq([j \in 1..Len(patterns) |-> match(text, patterns[j])],
                    1, Len(patterns)))

\* The tokens of a captured section: split, strip, trim.
skillTokens(skillsSection) ==
    SubSeq([k \in 1..Len(split(skillsSection, {",", "\n", "bullet", "middot"})) |->
               trim(SelectSeq(split(skillsSection, {",", "\n", "bullet", "middot"})[k],
                              LAMBDA ch : ch \notin {"-", "bullet", "middot"}))],
           1, Len(split(skillsSection, {",", "\n", "bullet", "middot"})))

\* The first 20 of a list.
slice20(kept) == SubSeq(kept, 1, Min(20, Len(kept)))

\* The skills of a captured section: the tokens, filter, slice.
skillsOf(skillsSection) ==
    slice20(SelectSeq(skillTokens(skillsSection),
                      LAMBDA skill : Len(skill) > 1
                          /\ ~(\A j \in 1..Len(skill) : skill[j] \in Digit)))

\* extractDataFromText on the characters of a text, for the categories name,
\* e-mail, phone, location and skills (the other five are not modelled on
\* characters). A field is the empty set when it is not set and the set of
\* its value when it is; skillsSection is the captured section the skills
\* were taken from. No step of these categories raises an exception.
nameParts(nameMatch) == split(trim(replaceSpaces(nameMatch[2])), {" "})

\* The section captured by the first skills pattern that matches and whose
\* section holds a skill, if there is one.
usedSection(sections) ==
    IF \A j \in 1..Len(sections) : sections[j] = <<>> \/ skillsOf(sections[j][2]) = <<>>
    THEN {}
    ELSE {sections[SetMin({j \in 1..Len(sections) :
                              sections[j] # <<>> /\ skillsOf(sections[j][2]) # <<>>})][2]}

dataOf(filename, nameMatch, emailMatch, phoneMatch, locationMatch, skillsSection) ==
    [filename |-> filename, status |-> "success", errorMessage |-> NoMsg,
     firstName |-> IF Toggle("name") /\ nameMatch # <<>>
                   THEN {nameParts(nameMatch)[1]} ELSE {},
     lastName |-> IF Toggle("name") /\ nameMatch # <<>>
                  THEN {join(Tail(nameParts(nameMatch)), <<" ">>)} ELSE {},
     email |-> IF Toggle("email") /\ emailMatch # <<>> THEN {emailMatch[1]} ELSE {},
     phone |-> IF Toggle("phone") /\ phoneMatch # <<>> THEN {phoneMatch[1]} ELSE {},
     location |->
         IF Toggle("location") /\ locationMatch # <<>>
         THEN IF Len(locationMatch) >= 2 /\ locationMatch[2] # <<>>
              THEN {locationMatch[2]} ELSE {locationMatch[1]}
         ELSE {},
     skills |-> IF Toggle("skills") THEN {skillsOf(section) : section \in skillsSection}
                ELSE {},
     skillsSection |-> IF Toggle("skills") THEN skillsSection ELSE {}]

\* extractDataFromText on a text of characters: the matches of the patterns
\* of each field, then the record built from them.
extractDataFromChars(text, filename) ==
    dataOf(filename, firstMatch(text, namePatterns), match(text, emailPattern),
           firstMatch(text, phonePatterns), firstMatch(text, locationPatterns),
           usedSection(SubSeq([j \in 1..Len(skillsPatterns) |->
                                  match(text, skillsPatterns[j])],
                              1, Len(skillsPatterns))))

\* pageText of a page from the strings of its text items.
pageTextOf(items) ==
    replaceSpaces(join(SelectSeq(SubSeq([k \in 1..Len(items) |-> trim(items[k])],
                                        1, Len(items)),
                                 LAMBDA str : Len(str) > 0), <<" ">>))

\* cleanText of a document all of whose pages are read.
cleanTextOf(pages) ==
    LET kept == SelectSeq(SubSeq([k \in 1..Len(pages) |-> pageTextOf(pages[k])],
                                 1, Len(pages)),
                          LAMBDA pageText : Len(pageText) > 5)
        fullText == join(SubSeq([k \in 1..Len(kept) |-> kept[k] \o <<"\n">>],
                                1, Len(kept)), <<>>)
    IN  replaceSpaces(trim(fullText))

\* Pages, each the strings of its text items.
\* The six lines of the scenario of the specification.
CvPage ==
    <<<<"J", "a", "n", "e", " ", "S", "m", "i", "t", "h">>,
      <<"j", "a", "n", "e", ".", "s", "m", "i", "t", "h", "@", "e", "x", "a", "m", "p",
        "l", "e", ".", "c", "o", "m">>,
      <<"(", "4", "1", "5", ")", " ", "5", "5", "5", "-", "0", "1", "0", "1">>,
      <<"S", "a", "n", " ", "F", "r", "a", "n", "c", "i", "s", "c", "o", ",", " ", "C",
        "A">>,
      <<"S", "K", "I", "L", "L", "S">>,
      <<"P", "y", "t", "h", "o", "n", ",", " ", "G", "o", ",", " ", "S", "Q", "L">>>>

\* The CV without its skills.
PlainPage ==
    <<<<"J", "a", "n", "e", " ", "S", "m", "i", "t", "h">>,
      <<"j", "a", "n", "e", ".", "s", "m", "i", "t", "h", "@", "e", "x", "a", "m", "p",
        "l", "e", ".", "c", "o", "m">>,
      <<"(", "4", "1", "5", ")", " ", "5", "5", "5", "-", "0", "1", "0", "1">>,
      <<"S", "a", "n", " ", "F", "r", "a", "n", "c", "i", "s", "c", "o", ",", " ", "C",
        "A">>>>

\* A CV with skills of one letter, a number and a dash.
LettersPage ==
    <<<<"J", "a", "n", "e", " ", "S", "m", "i", "t", "h">>,
      <<"j", "a", "n", "e", ".", "s", "m", "i", "t", "h", "@", "e", "x", "a", "m", "p",
        "l", "e", ".", "c", "o", "m">>,
      <<"S", "k", "i", "l", "l", "s", ":", " ", "C", ",", " ", "R", ",", " ", "G", "o",
        ",", " ", "4", "2", ",", " ", "-", " ", "S", "Q", "L">>>>

\* A skills page with blanks, tabs and line breaks in its items.
SpacedPage ==
    <<<<" ", " ", "T", "E", "C", "H", "N", "I", "C", "A", "L", " ", " ", "S", "K", "I",
        "L", "L", "S", " ">>,
      <<" ">>,
      <<"\t", "P", "y", "t", "h", "o", "n", ",", " ", " ", "G", "o", "\n">>,
      <<"S", "Q", "L", " ">>>>

\* A page of four characters.
FooterPage ==
    <<<<"p", ".", " ", "2">>>>

\* A page with a heading in capitals.
DegreePage ==
    <<<<"E", "D", "U", "C", "A", "T", "I", "O", "N">>,
      <<"B", "S", "c", ",", " ", "M", "I", "T">>>>

Pages == {CvPage, PlainPage, LettersPage, SpacedPage, FooterPage, DegreePage}

\* Documents of one or two pages.
Documents == {<<p>> : p \in Pages} \cup {<<p, q>> : p \in Pages, q \in Pages}

\* The text of a document as laid out: one line per item.
LayoutText(pages) ==
    join(SubSeq([k \in 1..Len(pages) |-> join(pages[k], <<"\n">>)], 1, Len(pages)),
         <<"\n">>)

\* The run of extractDataFromText on a text handed to it as it is.
layoutRun(text) ==
    [kind |-> "layout", text |-> text, handed |-> TRUE,
     data |-> extractDataFromChars(text, FileName(1))]

\* The run of processFiles on the text extractTextFromPDF returns: a text of
\* 50 characters or more is handed to extractDataFromText.
documentRun(text) ==
    [kind |-> "document", text |-> text, handed |-> Len(text) >= MIN_TEXT,
     data |-> IF Len(text) >= MIN_TEXT
              THEN extractDataFromChars(text, FileName(1))
              ELSE ErrorData([name |-> FileName(1)],
                             IF Len(text) = 0
                             THEN <<"No text content extracted">>
                             ELSE <<"Extracted text too short", Len(text)>>)]

\* extractDataFromText is called with the laid-out text of the document.
ExtractLayout ==
    /\ \A k \in 1..Len(runs) : runs[k].kind # "layout"
    /\ runs' = Append(runs, layoutRun(LayoutText(sample)))
    /\ UNCHANGED <<extractionSettings, sample, batchVars>>

\* The document goes through the assembly of extractTextFromPDF and the
\* checks of the text in processFiles.
ExtractDocument ==
    /\ \A k \in 1..Len(runs) : runs[k].kind # "document"
    /\ runs' = Append(runs, documentRun(cleanTextOf(sample)))
    /\ UNCHANGED <<extractionSettings, sample, batchVars>>

InitChars ==
    /\ Start({0}, BatchPool, FALSE)
    /\ extractionSettings = AllOn
    /\ sample \in Documents
    /\ runs = <<>>
    /\ scope = [pages |-> {}, texts |-> {}, faults |-> 0]

NextChars == ExtractLayout \/ ExtractDocument

SpecChars == InitChars /\ [][NextChars]_vars

\* ------------------------------------------------------ Start Processing
\* Invocations of processFiles from the Start Processing button, over one
\* React state and the flags of the module. The button is rendered again
\* after every step. The race of a file ends with a record of either status.
MaxClicks == 3

NewCall == [pc |-> "init", idx |-> 0, results |-> <<>>]

\* initializePDFWorker has returned in invocation c: reset of the state and
\* the loop body of the first file up to `await Promise.race(...)`.
Begin(c, list) ==
    /\ isProcessing' = TRUE
    /\ extractedData' = <<>>
    /\ stats' = [total |-> N, processed |-> 0, successful |-> 0, failed |-> 0,
                 currentFile |-> File(1).name]
    /\ calls' = [list EXCEPT ![c] = [pc |-> "race", idx |-> 1, results |-> <<>>]]

\* A click on the button, which is disabled while isProcessing: processFiles
\* is called. With a worker flag set initializePDFWorker returns at once and
\* the call goes on before any other event.
Click ==
    /\ ~isProcessing
    /\ Len(calls) < MaxClicks
    /\ IF N = 0
       THEN /\ calls' = Append(calls, [NewCall EXCEPT !.pc = "returned"])
            /\ UNCHANGED <<isProcessing, extractedData, stats>>
       ELSE IF workerInitialized \/ workerFailed
       THEN Begin(Len(calls) + 1, Append(calls, NewCall))
       ELSE /\ calls' = Append(calls, NewCall)
            /\ UNCHANGED <<isProcessing, extractedData, stats>>
    /\ UNCHANGED <<files, timed, faults, workerInitialized, workerFailed, pc, idx,
                   results, mainWake, outer, pipe, elapsed, extractionSettings,
                   sample, runs, scope>>

\* The test of the worker of invocation c is over (by its end or after its
\* 3 s) or has thrown: initializePDFWorker sets a flag and returns.
WorkerTested(c) ==
    /\ calls[c].pc = "init"
    /\ \/ workerInitialized' = TRUE /\ UNCHANGED workerFailed
       \/ workerFailed' = TRUE /\ UNCHANGED workerInitialized
    /\ Begin(c, calls)
    /\ UNCHANGED <<files, timed, faults, pc, idx, results, mainWake, outer, pipe,
                   elapsed, extractionSettings, sample, runs, scope>>

\* The race of the file in flight of invocation c has ended with a record or
\* with an error: the record is pushed and published, then the pause before
\* the next file or the end of the batch.
FileSettled(c) ==
    /\ calls[c].pc = "race"
    /\ \E thrown \in BOOLEAN, status \in {"success", "error"} :
         LET i == calls[c].idx
             rec == IF thrown \/ status = "error"
                    THEN ErrorData(File(i), <<"Failed to load PDF">>)
                    ELSE [filename |-> File(i).name, status |-> "success",
                          errorMessage |-> NoMsg, fields |-> {}]
             st == IF thrown THEN StatsOnThrow(stats, i) ELSE StatsOnRecord(stats, i, rec)
             next == AfterFilePc(i, N, rec)
         IN  /\ calls' = [calls EXCEPT ![c].pc = next,
                                       ![c].results = PushResult(@, rec)]
             /\ extractedData' = calls'[c].results
             /\ IF next = "pause"
                THEN stats' = st /\ UNCHANGED isProcessing
                ELSE /\ stats' = [st EXCEPT !.currentFile = NoFile]
                     /\ isProcessing' = FALSE
    /\ UNCHANGED <<files, timed, faults, workerInitialized, workerFailed, pc, idx,
                   results, mainWake, outer, pipe, elapsed, extractionSettings,
                   sample, runs, scope>>

\* The pause of invocation c between two files is over.
PauseOver(c) ==
    /\ calls[c].pc = "pause"
    /\ calls' = [calls EXCEPT ![c].pc = "race", ![c].idx = @ + 1]
    /\ stats' = [stats EXCEPT !.currentFile = File(calls[c].idx + 1).name]
    /\ UNCHANGED <<files, timed, faults, workerInitialized, workerFailed,
                   isProcessing, extractedData, pc, idx, results, mainWake, outer,
                   pipe, elapsed, extractionSettings, sample, runs, scope>>

InitClicks ==
    /\ Start(0..NumFiles, PagesPool, FALSE) /\ Mounted
    /\ scope = [pages |-> {}, texts |-> {}, faults |-> 0]

NextClicks ==
    \/ Click
    \/ \E c \in 1..Len(calls) : WorkerTested(c)
    \/ \E c \in 1..Len(calls) : FileSettled(c)
    \/ \E c \in 1..Len(calls) : PauseOver(c)

SpecClicks == InitClicks /\ [][NextClicks]_vars

\* ------------------------------------------------------------- fairness
\* Runs over one or two files, at most one of them a PDF with content, with
\* measured durations, in which a decode or a page may never return. The event loop runs every callback that is due
\* and every timer fires when its time has come: the steps of the run are
\* weakly fair.
LivePool == {f \in FilePool : f.size \in {0, 1 * MB}}

InitLive ==
    /\ Start({1, 2}, LivePool, TRUE) /\ Mounted
    /\ Cardinality({i \in 1..N : TypeIncludesPdf(files[i].type) /\ files[i].size > 0}) <= 1
    /\ scope = [pages |-> {1}, texts |-> {t \in PageTexts : t.len = 3 \/ t.m = CvMatches},
                faults |-> 0]

NextLive ==
    \/ Call
    \/ InitDone
    \/ RaceSettled
    \/ FileTimeout
    \/ PauseDone
    \/ Tick
    \/ \E i \in 1..N : ReaderEvent(i)
    \/ \E i \in 1..N : LoadDone(i)
    \/ \E i \in 1..N : PageDone(i)
    \/ \E i \in 1..N : ReinitDone(i)
    \/ \E i \in 1..N : BackoffDone(i)
    \/ \E i \in 1..N : ExtractTimeout(i)

SpecLive == InitLive /\ [][NextLive]_vars /\ WF_vars(NextLive)

\* ------------------------------------------------------------------ claims
Records == {i \in 1..N : i <= Len(results)}
IsFileTimeout(rec) ==
    rec.status = "error" /\ rec.errorMessage # NoMsg
        /\ rec.errorMessage[1] = "File processing timeout"
IsExtractTimeout(rec) ==
    rec.status = "error" /\ rec.errorMessage # NoMsg
        /\ rec.errorMessage[1] = "Processing timeout"
\* The step ends the race of the file in flight and pushes its record.
FileEnds == pc = "race" /\ Len(results') = Len(results) + 1

\* C1: when a batch over N files is done, the result list has exactly N
\* records and record i carries the filename of input file i.
C1_ResultsMatchInput ==
    pc = "done" =>
        /\ Len(results) = N
        /\ \A i \in 1..N : results[i].filename = FileName(i)
        /\ extractedData = results
C1_Witness ==
    /\ pc = "done" /\ N = 2
    /\ results[1].status = "error" /\ results[2].status = "success"

C4_ErrorNeverAborts ==
    [][/\ (FileEnds /\ results'[idx].status = "error" /\ idx < N) =>
           (pc' = "pause" /\ idx' = idx)
       /\ (pc = "pause" /\ pc' # "pause") =>
           (pc' = "race" /\ idx' = idx + 1 /\ pipe[idx'].pc = "none"
                /\ pipe'[idx'].pc # "none")]_vars
C4_Witness ==
    /\ pc = "race" /\ idx = 2 /\ pipe[2].pc = "reading"
    /\ IsFileTimeout(results[1])

\* C5: files are processed strictly one at a time: once a later file has
\* been started, no pipeline work of an earlier file is still running,
\* also after a timeout. The code does not keep this: the race abandons
\* the pipeline of a timed-out file without stopping it.
C5_NoOverlap ==
    \A j \in 1..N : j < idx => ~Running(pipe[j])

\* C6: a file ended by a timeout has its decoded document released and
\* nothing of it left running or held when the next file is processed.
\* The code does not keep this: neither timer cleans up or cancels.
C6_TimeoutReleases ==
    \A j \in Records :
        (j < idx /\ (IsFileTimeout(results[j]) \/ IsExtractTimeout(results[j])))
            => (~Running(pipe[j]) /\ pipe[j].task \notin {"loading", "open"})

\* The per-file budget as the specification words it: 5 s per MB of file
\* size, no less than 30 s and no more than 90 s.
BudgetMs(f) ==
    LET perMB == 5000 * (f.size \div MB)
    IN  IF perMB < 30000 THEN 30000 ELSE IF perMB > 90000 THEN 90000 ELSE perMB

\* C7: the race of a file never outlives the file's budget; a file whose
\* decode-and-assemble step is still pending when its race ends was ended
\* at the budget with an error record carrying the processing-timeout
\* message; a success record is only produced within the budget.
C7_BudgetEndsFile ==
    [][/\ pc = "race" => elapsed <= BudgetMs(File(idx))
       /\ (FileEnds /\ pipe[idx].promise.state = "pending") =>
              /\ elapsed = BudgetMs(File(idx))
              /\ IsFileTimeout(results'[idx])
              /\ results'[idx].errorMessage[2] = BudgetMs(File(idx)) \div 1000
       /\ (FileEnds /\ results'[idx].status = "success") =>
              elapsed <= BudgetMs(File(idx))]_vars
C7_Witness ==
    /\ pc = "done" /\ IsFileTimeout(results[1])
    /\ pipe[1].processedPages >= 1 /\ pipe[1].pc = "page"

\* C8: the decode-and-assemble step of a file is attempted at most 3 times.
C8_AtMostThreeAttempts ==
    \A i \in 1..N : pipe[i].attempts <= 3
C8_Witness ==
    \E i \in 1..N :
        /\ pipe[i].attempts = 3 /\ pipe[i].failures = 3
        /\ pipe[i].pc = "finished" /\ pipe[i].promise.state = "rejected"

\* C9: once the pipeline of a file has caught a failure that classifies as
\* not recoverable, no further attempt is begun: the pipeline is finished,
\* its promise is rejected and every attempt begun has failed.
C9_UnrecoverableNotRetried ==
    \A i \in 1..N :
        (pipe[i].failures >= 1
            /\ ~classifyError(pipe[i].lastError, FileName(i)).recoverable)
        => /\ pipe[i].pc = "finished"
           /\ pipe[i].promise.state = "rejected"
           /\ pipe[i].attempts = pipe[i].failures
C9_Witness ==
    \E i \in 1..N :
        /\ pipe[i].failures = 2 /\ pipe[i].attempts = 2
        /\ ~classifyError(pipe[i].lastError, FileName(i)).recoverable
        /\ pipe[i].pc = "finished"

\* C10: a failure of a recoverable class, the firing of the extraction
\* timeout included, leads to a further attempt while fewer than 2 retries
\* were made. The code does not keep this: the extraction timer rejects
\* the promise without entering the retry path, so a pipeline can finish
\* after that timeout with a single attempt.
C10_RecoverableRetried ==
    \A i \in 1..N :
        (pipe[i].pc = "finished" /\ pipe[i].promise.state = "rejected"
            /\ pipe[i].promise.msg # NoMsg
            /\ pipe[i].promise.msg[1] = "Processing timeout")
        => pipe[i].attempts >= 2

\* C11: a file of declared size 0 is never read or decoded: no attempt of
\* extractTextFromPDF is begun for it and no loading task exists; its
\* record is an error with the empty-file message, and when it is not the
\* last file the batch goes on to the pause before the next file.
C11_EmptyFile ==
    [][\A i \in 1..N : File(i).size = 0 =>
           /\ pipe'[i].attempts = 0 /\ pipe'[i].task = "none"
           /\ ~Running(pipe'[i])
           /\ (FileEnds /\ idx = i) =>
                  /\ results'[i] = ErrorData(File(i), <<"File is empty (0 bytes)">>)
                  /\ i < N => pc' = "pause"]_vars
C11_Witness ==
    /\ pc = "race" /\ idx = 2 /\ File(1).size = 0
    /\ results[1].errorMessage = <<"File is empty (0 bytes)">>
    /\ pipe[1].pc = "finished" /\ pipe[1].attempts = 0

\* A file that the validation of processFiles rejects for its size or type.
Oversize(f) == f.size > 50 * MB
NotPdfLike(f) == f.size > 0 /\ f.size <= 50 * MB /\ f.type # "application/pdf"

\* C12: a file above 50 MB, or whose type is not PDF-like, is never read or
\* decoded and never retried: no attempt is begun for it; its record is an
\* error with the message of its own rejection.
C12_SizeAndTypeRejected ==
    [][\A i \in 1..N : (Oversize(File(i)) \/ NotPdfLike(File(i))) =>
           /\ pipe'[i].attempts = 0 /\ pipe'[i].task = "none"
           /\ ~Running(pipe'[i])
           /\ (FileEnds /\ idx = i) =>
                  /\ results'[i].status = "error"
                  /\ Oversize(File(i)) =>
                         results'[i].errorMessage[1] = "File too large"
                  /\ NotPdfLike(File(i)) =>
                         results'[i].errorMessage[1] = "Invalid file type"]_vars
C12_Witness ==
    /\ pc = "done" /\ N = 2
    /\ Oversize(File(1)) /\ results[1].errorMessage[1] = "File too large"
    /\ NotPdfLike(File(2)) /\ results[2].errorMessage[1] = "Invalid file type"
    /\ pipe[1].attempts = 0 /\ pipe[2].attempts = 0

RunsMade == 1..Len(runs)
GateFields == {"firstName", "email", "phone", "skills", "currentRole", "experience"}

\* C13: the record of a text whose extraction raised no exception is
\* demoted to an error with the no-recognizable-CV-data message exactly
\* when none of firstName, email, phone, skills, currentRole, experience
\* is populated; otherwise it is the extracted record with status success.
C13_QualityGate ==
    \A k \in RunsMade :
        LET d == runs[k].data
            pr == runs[k].promise
        IN  /\ d.status = "success"
            /\ pr.state = "fulfilled"
            /\ IF Populated(d) \cap GateFields = {}
               THEN /\ pr.rec.status = "error"
                    /\ pr.rec.errorMessage = <<"No recognizable CV data found">>
               ELSE pr.rec = d
C13_Witness ==
    \E k \in RunsMade :
        /\ Populated(runs[k].data) = {"location"}
        /\ runs[k].data.status = "success"
        /\ runs[k].promise.rec.status = "error"

\* The output fields of each toggle.
ToggleFields ==
    [name |-> {"firstName", "lastName"}, email |-> {"email"}, phone |-> {"phone"},
     location |-> {"location"}, role |-> {"currentRole"}, skills |-> {"skills"},
     education |-> {"education"}, experience |-> {"experience"},
     about |-> {"about"}, languages |-> {"languages"}]

\* C14: with the toggle of a category off, the fields of the category are
\* absent from the extracted record whatever the text matches, and the
\* extraction returns without an error.
C14_ToggleOffFieldAbsent ==
    \A k \in RunsMade : \A c \in DOMAIN ToggleFields :
        ~extractionSettings[c] =>
            /\ Populated(runs[k].data) \cap ToggleFields[c] = {}
            /\ runs[k].data.status = "success"
            /\ runs[k].data.errorMessage = NoMsg
C14_Witness ==
    \E k \in RunsMade :
        /\ runs[k].text = RichText
        /\ ~extractionSettings["email"]
        /\ Populated(runs[k].data) =
               UNION {ToggleFields[c] : c \in DOMAIN ToggleFields} \ {"email"}

\* The rules of category c that match the text.
Matching(text, c) == {r \in 1..RuleCount[c] : text.m[c][r] # "none"}

\* C15: a field that is populated holds the value of the first rule of its
\* category that matches the text. The code does not keep this: for
\* education a match of 5 characters or less is stored and the later rules
\* are tried all the same, so the field can hold the value of a later rule.
C15_FirstMatchWins ==
    \A k \in RunsMade : \A c \in DOMAIN ToggleFields :
        \A fv \in runs[k].data.fields :
            fv[1] \in ToggleFields[c] =>
                /\ Matching(runs[k].text, c) # {}
                /\ fv[2].rule = SetMin(Matching(runs[k].text, c))

C17_NoTextContent ==
    \A i \in Records :
        (/\ pipe[i].lastError = "No readable text found. File may be image-based or corrupted."
         /\ pipe[i].promise.state = "rejected"
         /\ results[i].errorMessage = pipe[i].promise.msg)
        => results[i].errorMessage[1] \in
               {"No readable text found. File may be image-based or corrupted.",
                "No text content extracted"}

\* C20: whenever the promise of extractTextFromPDF has been settled, the
\* document the attempt decoded has been released: no loading task of the
\* file is loading or open. The code does not keep this: the timer of
\* extractTextFromPDF rejects the promise and releases nothing.
C20_ReleasedOnEveryEnd ==
    \A i \in 1..N :
        pipe[i].promise.state # "pending" => pipe[i].task \notin {"loading", "open"}

\* C18: the page loop of an attempt ends only when every page up to the page
\* cap was attempted, however many pages failed. The code does not keep
\* this: once more than 70% of the pages have failed it breaks out of the
\* batch and the remaining pages of the batch are never fetched.
C18_AllPagesAttempted ==
    [][\A i \in 1..N :
           (pipe[i].pc = "page" /\ pipe'[i].pc # "page") =>
               Len(pipe[i].fetched) = pipe[i].maxPages]_vars

\* C19: the pages fetched in an attempt on a document of P pages are pages
\* 1..min(P, 30), in strictly ascending order (so none twice).
C19_OnlyCappedPages ==
    \A i \in 1..N :
        LET f == pipe[i].fetched
        IN  /\ \A k \in 1..Len(f) : 1 <= f[k] /\ f[k] <= pipe[i].numPages /\ f[k] <= 30
            /\ \A k \in 1..(Len(f) - 1) : f[k] < f[k + 1]
C19_Witness ==
    \E i \in 1..N :
        /\ pipe[i].pc = "page" /\ pipe[i].numPages = 31
        /\ Len(pipe[i].fetched) = 30 /\ pipe[i].fetched[30] = 30
        /\ pipe[i].failedPages >= 1

\* C21: at every point between files (and while a file is in flight, and
\* after the batch) the published result list has exactly stats.processed
\* records, and they are the records of the first stats.processed input
\* files, in input order.
C21_PublishedMatchesStats ==
    pc \in {"race", "pause", "done"} =>
        /\ Len(extractedData) = stats.processed
        /\ Len(extractedData) <= Len(results)
        /\ \A k \in 1..Len(extractedData) :
               extractedData[k].filename = FileName(k) /\ extractedData[k] = results[k]
C21_Witness ==
    /\ pc = "pause" /\ N = 2 /\ stats.processed = 1
    /\ Len(extractedData) = 1 /\ extractedData[1].status = "error"
    /\ pipe[1].promise.state = "rejected"

\* C22: while file i is in flight currentFile is the name of file i; during
\* the pause between two files and after the batch it is absent. The code
\* does not keep this: currentFile is cleared only after the loop, so during
\* the pause it still names the file that just ended.
C22_CurrentFileCleared ==
    /\ pc = "race" => stats.currentFile = FileName(idx)
    /\ pc \in {"pause", "done"} => stats.currentFile = NoFile

\* C23: in every record of every published result list, status success
\* implies that errorMessage is absent; an errorMessage is only present in
\* a record of status error.
C23_SuccessHasNoMessage ==
    \A k \in 1..Len(extractedData) :
        /\ extractedData[k].status \in {"success", "error"}
        /\ extractedData[k].status = "success" => extractedData[k].errorMessage = NoMsg
        /\ extractedData[k].errorMessage # NoMsg => extractedData[k].status = "error"
C23_Witness ==
    /\ pc = "done" /\ Len(extractedData) = 2
    /\ extractedData[1].status = "error"
    /\ extractedData[1].errorMessage = <<"No recognizable CV data found">>
    /\ extractedData[2].status = "success" /\ extractedData[2].errorMessage = NoMsg
    /\ extractedData[2].fields # {}

\* C29: every record with status success is of a file that passed the
\* validation (0 < size <= 50 MB, type containing "pdf") and whose
\* normalized text has at least 50 characters; a file whose normalized text
\* has between 1 and 49 characters has an error record, whatever its counts
\* of failed and processed pages.
C29_SuccessNeedsFileAndText ==
    \A i \in Records :
        /\ results[i].status = "success" =>
               /\ 0 < File(i).size /\ File(i).size <= 50 * MB
               /\ TypeIncludesPdf(File(i).type)
               /\ pipe[i].pc = "finished" /\ pipe[i].chars >= 50
        /\ (pipe[i].pc = "finished" /\ pipe[i].chars >= 1 /\ pipe[i].chars <= 49) =>
               results[i].status = "error"
\* A text of 20 characters with more failed than processed pages.
C29_Witness ==
    /\ pc = "done" /\ pipe[1].pc = "finished" /\ pipe[1].chars = 20
    /\ pipe[1].lastError = "Very little text extracted. File may be image-based."
    /\ results[1].status = "error"

\* C25: each retry of a file waits before it reattempts, 1 s before the
\* first retry and 2 s before the second, and every retry starts again from
\* the validation: the empty, size and type checks are made again before
\* the attempt decodes. The code does not keep this: the retry calls
\* extractTextFromPDF again, which checks for an empty file and for its own
\* ceiling of 100 MB; the type check and the ceiling of 50 MB of processFiles
\* are not made again.
C25_RetryRevalidates ==
    \A i \in 1..N :
        /\ pipe[i].pc = "backoff" =>
               /\ pipe[i].retryCount = 0 => pipe[i].wake = After(1000)
               /\ pipe[i].retryCount = 1 => pipe[i].wake = After(2000)
        /\ pipe[i].pc \in {"reading", "loading", "page"} =>
               {"empty", "size", "type"} \subseteq pipe[i].checked

\* C24: with all toggles on, the text of the scenario (the six lines of
\* CvPage) gives firstName Jane, lastName Smith, the e-mail and the phone of
\* its second and third line, a location that is its fourth line (or that
\* line from its second word on), the skills Python, Go, SQL and status
\* success.
C24_JaneSmithScenario ==
    \A k \in 1..Len(runs) :
        (runs[k].kind = "layout" /\ runs[k].text = LayoutText(<<CvPage>>)
            /\ extractionSettings = AllOn) =>
            /\ runs[k].data.firstName = {<<"J", "a", "n", "e">>}
            /\ runs[k].data.lastName = {<<"S", "m", "i", "t", "h">>}
            /\ runs[k].data.email = {CvPage[2]}
            /\ runs[k].data.phone = {CvPage[3]}
            /\ runs[k].data.location \in {{CvPage[4]}, {SubSeq(CvPage[4], 5, Len(CvPage[4]))}}
            /\ runs[k].data.skills = {<<<<"P", "y", "t", "h", "o", "n">>, <<"G", "o">>,
                                        <<"S", "Q", "L">>>>}
            /\ runs[k].data.status = "success"

\* C26: the skills of a captured section are the tokens of the section that
\* are not empty and not purely numeric, in their order, the first 20 of them.
C26_SkillsAreNonNumericTokens ==
    \A k \in 1..Len(runs) : runs[k].handed =>
        \A section \in runs[k].data.skillsSection :
        runs[k].data.skills =
            {slice20(SelectSeq(skillTokens(section),
                               LAMBDA token : Len(token) > 0
                                   /\ ~(\A j \in 1..Len(token) : token[j] \in Digit)))}

\* C30: a text that processFiles hands to extractDataFromText has no line
\* break, no two adjacent whitespace characters and no whitespace at its
\* start or end, and a skills section captured from it runs to its end.
C30_HandedTextIsOneLine ==
    \A k \in 1..Len(runs) :
        (runs[k].kind = "document" /\ runs[k].handed) =>
            /\ \A j \in 1..Len(runs[k].text) : runs[k].text[j] \notin {"\n", "\r"}
            /\ \A j \in 1..(Len(runs[k].text) - 1) :
                   ~(runs[k].text[j] \in Space /\ runs[k].text[j + 1] \in Space)
            /\ runs[k].text[1] \notin Space
            /\ runs[k].text[Len(runs[k].text)] \notin Space
            /\ \A section \in runs[k].data.skillsSection :
                   /\ Len(section) <= Len(runs[k].text)
                   /\ section = SubSeq(runs[k].text,
                                       Len(runs[k].text) - Len(section) + 1,
                                       Len(runs[k].text))
C30_Witness ==
    /\ sample = <<CvPage, SpacedPage>>
    /\ \E k \in 1..Len(runs) :
           /\ runs[k].kind = "document" /\ runs[k].handed
           /\ Len(runs[k].text) > Len(pageTextOf(CvPage)) + 1
           /\ runs[k].data.skillsSection # {}
           /\ \A section \in runs[k].data.skillsSection :
                  Len(section) > Len(pageTextOf(SpacedPage))

\* The invocations of processFiles that are in their loop over the files.
InLoop == {c \in 1..Len(calls) : calls[c].pc \in {"race", "pause"}}

\* C27: at most one run is in flight at any time: no second invocation of
\* processFiles is in its loop over the files before the first has completed,
\* whenever the Start requests are made.
C27_OneRunInFlight == Cardinality(InLoop) <= 1

====
